---- MODULE Spec2Model ----
(***************************************************************************)
(* Model of docs/api/examples/python_client.py: the GIIAClient session     *)
(* (access_token, org_id, user), its twelve operations, each one blocking  *)
(* HTTP exchange, and the example driver main().                           *)
(*                                                                         *)
(* Python's None is the empty tuple and a held value v is <<v>>.  A JSON   *)
(* object is a function whose domain is the set of keys it carries, so     *)
(* d["k"] raising KeyError and d.get("k", default) are modelled by tests   *)
(* on DOMAIN d.  The server is the environment: every operation draws the  *)
(* server's answer (a network failure, or a status with a body) from a     *)
(* bounded set.                                                            *)
(***************************************************************************)
EXTENDS Integers, Sequences, FiniteSets, TLC

VARIABLES
    access_token,   \* GIIAClient.access_token : Optional[str]
    org_id,         \* GIIAClient.org_id       : Optional[str]
    user,           \* GIIAClient.user         : Optional[User]
    clock,          \* the wall clock read by datetime.now(), in ticks
    op,             \* name of the client operation just called, "" between calls
    args,           \* its arguments
    pre,            \* the session fields as they were when it was called
    requests,       \* the HTTP requests it sent, in order
    response,       \* the server's answer to it
    outcome,        \* "ok" when it returned, else the exception it raised
    result,         \* <<value>> when it returned a value, <<>> otherwise
    pc,             \* main(): the step the driver is at
    products,       \* main(): the local variable products
    log             \* main(): the steps attempted so far, with their outcome

vars == <<access_token, org_id, user, clock, op, args, pre, requests,
          response, outcome, result, pc, products, log>>

session == <<access_token, org_id, user>>
driver == <<pc, products, log>>

----------------------------------------------------------------------------
(* Bounds of the model. *)

\* Optional JSON keys: a drawn object lacks at most MaxDeviation keys of its
\* shape, or carries at most MaxDeviation of them.
MaxDeviation == 1
\* Longest "products" / "data" / "notifications" array a response carries.
MaxProducts == 1
\* Last tick of the wall clock.
MaxClock == 2
\* Clock ticks per calendar day.
TicksPerDay == 2

----------------------------------------------------------------------------
(* Values. *)

None == <<>>
Some(v) == <<v>>

\* Python truthiness of an Optional[str]: None and "" are falsy.
Truthy(x) == x # None /\ x[1] # ""

EmptyObj == [k \in {} |-> ""]

Tokens == {"t1", "t2"}
Orgs == {"o1", "o2"}
ProductIds == {"p1", "p2"}

SampleSubsets(S) ==
    {K \in SUBSET S : Cardinality(K) <= MaxDeviation
                         \/ Cardinality(S \ K) <= MaxDeviation}

\* Arrays of at most MaxProducts elements of S.
Arrays(S) == UNION {[1..n -> S] : n \in 0..MaxProducts}

----------------------------------------------------------------------------
(* The server's answers. *)

NetworkFailure == [kind |-> "failure", status |-> 0, body |-> EmptyObj]
Answer(status, body) == [kind |-> "response", status |-> status, body |-> body]

Statuses == {200, 401, 500}
ErrorBody == [k \in {"error"} |-> "denied"]

\* Mutant: only server errors raise, a 4xx answer is read as a result.
raise_for_status_mut(status) == status >= 500 /\ status < 600

\* Response.raise_for_status(): HTTPError for 4xx and 5xx.
raise_for_status(status) == status >= 400 /\ status < 600

Responses(bodies) ==
    {NetworkFailure}
        \cup {Answer(200, b) : b \in bodies}
        \cup {Answer(s, ErrorBody) : s \in Statuses \ {200}}

RequestException == {"HTTPError", "ConnectionError"}

\* The exception a call raises before it reads the body, "" if none.
Raised(resp) ==
    IF resp.kind = "failure" THEN "ConnectionError"
    ELSE IF raise_for_status(resp.status) THEN "HTTPError"
    ELSE ""

----------------------------------------------------------------------------
(* Requests. *)

_headers ==
    LET keys == {"Content-Type"}
                  \cup (IF Truthy(access_token) THEN {"Authorization"} ELSE {})
                  \cup (IF Truthy(org_id) THEN {"X-Organization-ID"} ELSE {})
    IN [h \in keys |->
          CASE h = "Content-Type" -> "application/json"
            [] h = "Authorization" -> "Bearer " \o access_token[1]
            [] h = "X-Organization-ID" -> org_id[1]]

Request(method, port, path, headers, json, params) ==
    [method |-> method, port |-> port, path |-> path, headers |-> headers,
     json |-> json, params |-> params]

\* What every operation leaves behind: the observation of the call and the
\* session fields after it.
Call(name, a, reqs, resp, outc, res, tok, org, usr) ==
    /\ op' = name
    /\ args' = a
    /\ pre' = [access_token |-> access_token, org_id |-> org_id, user |-> user]
    /\ requests' = reqs
    /\ response' = resp
    /\ outcome' = outc
    /\ result' = res
    /\ access_token' = tok
    /\ org_id' = org
    /\ user' = usr

----------------------------------------------------------------------------
(* Authentication. *)

UserKeys == {"organization_id", "id", "email", "first_name", "last_name", "roles"}

UserObjects ==
    {[k \in K |->
        CASE k = "organization_id" -> o
          [] k = "id" -> "u1"
          [] k = "email" -> "demo@example.com"
          [] k = "first_name" -> "Ana"
          [] k = "last_name" -> "Diaz"
          [] k = "roles" -> <<"admin">>] : K \in SampleSubsets(UserKeys), o \in Orgs}

LoginBodies ==
    {[k \in K |-> IF k = "access_token" THEN t ELSE u] :
        K \in SUBSET {"access_token", "user"}, t \in Tokens, u \in UserObjects}

Get(d, k, default) == IF k \in DOMAIN d THEN d[k] ELSE default

\* Mutant: the user's organization is taken from the wrong key.
User_mut(u) ==
    [id |-> u["id"],
     email |-> u["email"],
     first_name |-> Get(u, "first_name", ""),
     last_name |-> Get(u, "last_name", ""),
     organization_id |-> u["id"],
     roles |-> Get(u, "roles", <<>>)]

\* User(...) of login(), lines 81-88; every required key is present.
User(u) ==
    [id |-> u["id"],
     email |-> u["email"],
     first_name |-> Get(u, "first_name", ""),
     last_name |-> Get(u, "last_name", ""),
     organization_id |-> u["organization_id"],
     roles |-> Get(u, "roles", <<>>)]

login(email, password, resp) ==
    LET a == [email |-> email, password |-> password]
        req == Request("POST", 8081, <<"api", "v1", "auth", "login">>, EmptyObj,
                       [email |-> email, password |-> password], EmptyObj)
        data == resp.body
        Fail(exc, tok, org) ==
            Call("login", a, <<req>>, resp, exc, None, tok, org, user)
    IN IF Raised(resp) # ""
         THEN Fail(Raised(resp), access_token, org_id)
       ELSE IF "access_token" \notin DOMAIN data
         THEN Fail("KeyError", access_token, org_id)
       ELSE IF "user" \notin DOMAIN data
                 \/ "organization_id" \notin DOMAIN data["user"]
         THEN Fail("KeyError", Some(data["access_token"]), org_id)
       ELSE IF "id" \notin DOMAIN data["user"] \/ "email" \notin DOMAIN data["user"]
         THEN Fail("KeyError", Some(data["access_token"]),
                   Some(data["user"]["organization_id"]))
       ELSE Call("login", a, <<req>>, resp, "ok", Some(User(data["user"])),
                 Some(data["access_token"]),
                 Some(data["user"]["organization_id"]),
                 Some(User(data["user"])))

RefreshBodies == {[k \in K |-> t] : K \in SUBSET {"access_token"}, t \in Tokens}

\* Mutant: a refused refresh drops the stored token.
refresh_token_mut(resp) ==
    LET req == Request("POST", 8081, <<"api", "v1", "auth", "refresh">>, EmptyObj,
                       EmptyObj, EmptyObj)
        data == resp.body
    IN IF Raised(resp) # ""
         THEN Call("refresh_token", EmptyObj, <<req>>, resp, Raised(resp), None,
                   None, org_id, user)
       ELSE IF "access_token" \notin DOMAIN data
         THEN Call("refresh_token", EmptyObj, <<req>>, resp, "KeyError", None,
                   access_token, org_id, user)
       ELSE Call("refresh_token", EmptyObj, <<req>>, resp, "ok",
                 Some(data["access_token"]),
                 Some(data["access_token"]), org_id, user)

refresh_token(resp) ==
    LET req == Request("POST", 8081, <<"api", "v1", "auth", "refresh">>, EmptyObj,
                       EmptyObj, EmptyObj)
        data == resp.body
    IN IF Raised(resp) # ""
         THEN Call("refresh_token", EmptyObj, <<req>>, resp, Raised(resp), None,
                   access_token, org_id, user)
       ELSE IF "access_token" \notin DOMAIN data
         THEN Call("refresh_token", EmptyObj, <<req>>, resp, "KeyError", None,
                   access_token, org_id, user)
       ELSE Call("refresh_token", EmptyObj, <<req>>, resp, "ok",
                 Some(data["access_token"]),
                 Some(data["access_token"]), org_id, user)

\* Mutant: logout forgets the token and keeps organization id and user.
logout_mut(resp) ==
    LET req == Request("POST", 8081, <<"api", "v1", "auth", "logout">>, _headers,
                       EmptyObj, EmptyObj)
    IN IF resp.kind = "failure"
         THEN Call("logout", EmptyObj, <<req>>, resp, "ConnectionError", None,
                   access_token, org_id, user)
       ELSE Call("logout", EmptyObj, <<req>>, resp, "ok", None, None, org_id, user)

\* session.post raises on a network failure, before the three assignments;
\* the status of an answer is never looked at.
logout(resp) ==
    LET req == Request("POST", 8081, <<"api", "v1", "auth", "logout">>, _headers,
                       EmptyObj, EmptyObj)
    IN IF resp.kind = "failure"
         THEN Call("logout", EmptyObj, <<req>>, resp, "ConnectionError", None,
                   access_token, org_id, user)
       ELSE Call("logout", EmptyObj, <<req>>, resp, "ok", None, None, None, None)

----------------------------------------------------------------------------
(* Products (catalog service). *)

ProductKeys == {"id", "sku", "name", "category", "unit_of_measure", "status"}

ProductObjects ==
    {[k \in K |->
        CASE k = "id" -> "p1"
          [] k = "sku" -> "SKU-1"
          [] k = "name" -> "Widget"
          [] k = "category" -> "Tools"
          [] k = "unit_of_measure" -> "kg"
          [] k = "status" -> "inactive"] : K \in SampleSubsets(ProductKeys)}

\* p["id"], p["sku"], p["name"] raise KeyError on an absent key.
HasProductKeys(p) == {"id", "sku", "name"} \subseteq DOMAIN p

\* Mutant: an absent status defaults like the other optional fields.
Product_mut(p) ==
    [id |-> p["id"],
     sku |-> p["sku"],
     name |-> p["name"],
     category |-> Get(p, "category", ""),
     unit_of_measure |-> Get(p, "unit_of_measure", ""),
     status |-> Get(p, "status", "")]

\* Product(...) of list_products, get_product and create_product.
Product(p) ==
    [id |-> p["id"],
     sku |-> p["sku"],
     name |-> p["name"],
     category |-> Get(p, "category", ""),
     unit_of_measure |-> Get(p, "unit_of_measure", ""),
     status |-> Get(p, "status", "active")]

\* Mutant: a call refused by the server drops the stored token.
Query_mut(name, a, req, resp, outc, res) ==
    Call(name, a, <<req>>, resp, outc, res,
         IF outc = "HTTPError" THEN None ELSE access_token, org_id, user)

\* An operation that leaves the session alone.
Query(name, a, req, resp, outc, res) ==
    Call(name, a, <<req>>, resp, outc, res, access_token, org_id, user)

ListBodies ==
    {EmptyObj} \cup {[k \in {"products"} |-> arr] : arr \in Arrays(ProductObjects)}

list_products(page, page_size, status, resp) ==
    LET a == [page |-> page, page_size |-> page_size, status |-> status]
        params == [k \in {"page", "page_size"}
                           \cup (IF Truthy(status) THEN {"status"} ELSE {}) |->
                      CASE k = "page" -> page
                        [] k = "page_size" -> page_size
                        [] k = "status" -> status[1]]
        req == Request("GET", 8082, <<"api", "v1", "products">>, _headers,
                       EmptyObj, params)
        arr == Get(resp.body, "products", <<>>)
    IN IF Raised(resp) # ""
         THEN Query("list_products", a, req, resp, Raised(resp), None)
       ELSE IF \E i \in 1..Len(arr) : ~HasProductKeys(arr[i])
         THEN Query("list_products", a, req, resp, "KeyError", None)
       ELSE Query("list_products", a, req, resp, "ok",
                  Some([i \in 1..Len(arr) |-> Product(arr[i])]))

get_product(product_id, resp) ==
    LET a == [product_id |-> product_id]
        req == Request("GET", 8082, <<"api", "v1", "products", product_id>>,
                       _headers, EmptyObj, EmptyObj)
        p == resp.body
    IN IF Raised(resp) # ""
         THEN Query("get_product", a, req, resp, Raised(resp), None)
       ELSE IF ~HasProductKeys(p)
         THEN Query("get_product", a, req, resp, "KeyError", None)
       ELSE Query("get_product", a, req, resp, "ok", Some(Product(p)))

create_product(sku, name, category, unit_of_measure, resp) ==
    LET a == [sku |-> sku, name |-> name, category |-> category,
              unit_of_measure |-> unit_of_measure]
        req == Request("POST", 8082, <<"api", "v1", "products">>, _headers,
                       [sku |-> sku, name |-> name, category |-> category,
                        unit_of_measure |-> unit_of_measure], EmptyObj)
        p == resp.body
    IN IF Raised(resp) # ""
         THEN Query("create_product", a, req, resp, Raised(resp), None)
       ELSE IF ~HasProductKeys(p)
         THEN Query("create_product", a, req, resp, "KeyError", None)
       ELSE Query("create_product", a, req, resp, "ok", Some(Product(p)))

----------------------------------------------------------------------------
(* Buffers (DDMRP engine). *)

BufferKeys == {"product_id", "zone", "net_flow_position", "buffer_penetration",
               "red_zone", "yellow_zone", "green_zone"}

BufferObjects ==
    {[k \in K |->
        CASE k = "product_id" -> "p9"
          [] k = "zone" -> "red"
          [] k = "net_flow_position" -> 120
          [] k = "buffer_penetration" -> 1
          [] k = "red_zone" -> 50
          [] k = "yellow_zone" -> 80
          [] k = "green_zone" -> 100] : K \in SampleSubsets(BufferKeys)}

BufferBodies == {EmptyObj} \cup {[k \in {"buffer"} |-> b] : b \in BufferObjects}

\* Buffer(...) of get_buffer and calculate_buffer.
Buffer(b, product_id) ==
    [product_id |-> Get(b, "product_id", product_id),
     zone |-> Get(b, "zone", "unknown"),
     net_flow_position |-> Get(b, "net_flow_position", 0),
     buffer_penetration |-> Get(b, "buffer_penetration", 0),
     red_zone |-> Get(b, "red_zone", 0),
     yellow_zone |-> Get(b, "yellow_zone", 0),
     green_zone |-> Get(b, "green_zone", 0)]

get_buffer(product_id, resp) ==
    LET a == [product_id |-> product_id]
        req == Request("GET", 8083, <<"api", "v1", "buffers", product_id>>,
                       _headers, EmptyObj, EmptyObj)
        b == Get(resp.body, "buffer", EmptyObj)
    IN IF Raised(resp) # ""
         THEN Query("get_buffer", a, req, resp, Raised(resp), None)
       ELSE Query("get_buffer", a, req, resp, "ok", Some(Buffer(b, product_id)))

calculate_buffer(product_id, resp) ==
    LET a == [product_id |-> product_id]
        req == Request("POST", 8083,
                       <<"api", "v1", "buffers", product_id, "calculate">>,
                       _headers, EmptyObj, EmptyObj)
        b == Get(resp.body, "buffer", EmptyObj)
    IN IF Raised(resp) # ""
         THEN Query("calculate_buffer", a, req, resp, Raised(resp), None)
       ELSE Query("calculate_buffer", a, req, resp, "ok",
                  Some(Buffer(b, product_id)))

----------------------------------------------------------------------------
(* The calendar: datetime.now(), timedelta(days=n), strftime("%Y-%m-%d"). *)

\* The calendar date of tick 0.
Epoch == <<2024, 2, 28>>

IsLeap(y) == (y % 4 = 0 /\ y % 100 # 0) \/ y % 400 = 0

DaysInMonth(y, m) ==
    IF m = 2 THEN (IF IsLeap(y) THEN 29 ELSE 28)
    ELSE IF m \in {4, 6, 9, 11} THEN 30
    ELSE 31

NextDay(d) ==
    IF d[3] < DaysInMonth(d[1], d[2]) THEN <<d[1], d[2], d[3] + 1>>
    ELSE IF d[2] < 12 THEN <<d[1], d[2] + 1, 1>>
    ELSE <<d[1] + 1, 1, 1>>

RECURSIVE DateOfDay(_)
DateOfDay(n) == IF n = 0 THEN Epoch ELSE NextDay(DateOfDay(n - 1))

\* datetime + timedelta(days=n)
timedelta(t, days) == t + days * TicksPerDay

\* datetime.strftime("%Y-%m-%d"): the calendar date, as <<year, month, day>>
strftime(t) == DateOfDay(t \div TicksPerDay)

----------------------------------------------------------------------------
(* Purchase orders (execution service). *)

RawObjects == {EmptyObj, [k \in {"id"} |-> "r1"]}

\* datetime.now() is read twice, for order_date and then for
\* expected_arrival_date; the clock moves on by adv ticks between the reads.
create_purchase_order(po_number, supplier_id, line_items, expected_days, adv, resp) ==
    LET a == [po_number |-> po_number, supplier_id |-> supplier_id,
              line_items |-> line_items, expected_days |-> expected_days]
        now1 == clock
        now2 == clock + adv
        req == Request("POST", 8084, <<"api", "v1", "purchase-orders">>, _headers,
                       [po_number |-> po_number,
                        supplier_id |-> supplier_id,
                        order_date |-> strftime(now1),
                        expected_arrival_date |->
                            strftime(timedelta(now2, expected_days)),
                        line_items |-> line_items], EmptyObj)
    IN /\ now2 <= MaxClock
       /\ clock' = now2
       /\ IF Raised(resp) # ""
            THEN Query("create_purchase_order", a, req, resp, Raised(resp), None)
          ELSE Query("create_purchase_order", a, req, resp, "ok", Some(resp.body))

DataBodies == {EmptyObj} \cup {[k \in {"data"} |-> arr] : arr \in Arrays(RawObjects)}

list_purchase_orders(status, resp) ==
    LET a == [status |-> status]
        params == [k \in (IF Truthy(status) THEN {"status"} ELSE {}) |-> status[1]]
        req == Request("GET", 8084, <<"api", "v1", "purchase-orders">>, _headers,
                       EmptyObj, params)
    IN IF Raised(resp) # ""
         THEN Query("list_purchase_orders", a, req, resp, Raised(resp), None)
       ELSE Query("list_purchase_orders", a, req, resp, "ok",
                  Some(Get(resp.body, "data", <<>>)))

----------------------------------------------------------------------------
(* Analytics and notifications. *)

KpiBodies == {EmptyObj, [k \in {"service_level"} |-> 1]}

get_kpi_snapshot(resp) ==
    LET req == Request("GET", 8085, <<"api", "v1", "analytics", "snapshot">>,
                       _headers, EmptyObj, EmptyObj)
    IN IF Raised(resp) # ""
         THEN Query("get_kpi_snapshot", EmptyObj, req, resp, Raised(resp), None)
       ELSE Query("get_kpi_snapshot", EmptyObj, req, resp, "ok", Some(resp.body))

NotificationBodies ==
    {EmptyObj} \cup {[k \in {"notifications"} |-> arr] : arr \in Arrays(RawObjects)}

\* str(unread_only).lower()
BoolParam(b) == IF b THEN "true" ELSE "false"

get_notifications(unread_only, resp) ==
    LET a == [unread_only |-> unread_only]
        req == Request("GET", 8086, <<"api", "v1", "notifications">>, _headers,
                       EmptyObj, [unread_only |-> BoolParam(unread_only)])
    IN IF Raised(resp) # ""
         THEN Query("get_notifications", a, req, resp, Raised(resp), None)
       ELSE Query("get_notifications", a, req, resp, "ok",
                  Some(Get(resp.body, "notifications", <<>>)))

----------------------------------------------------------------------------
Init ==
    /\ access_token = None
    /\ org_id = None
    /\ user = None
    /\ clock = 0
    /\ op = ""
    /\ args = EmptyObj
    /\ pre = [access_token |-> None, org_id |-> None, user |-> None]
    /\ requests = <<>>
    /\ response = NetworkFailure
    /\ outcome = "ok"
    /\ result = None
    /\ pc = "login"
    /\ products = <<>>
    /\ log = <<>>

Login ==
    /\ op = ""
    /\ \E resp \in Responses(LoginBodies) :
          login("demo@example.com", "password", resp)
    /\ UNCHANGED <<clock, driver>>

RefreshToken ==
    /\ op = ""
    /\ \E resp \in Responses(RefreshBodies) : refresh_token(resp)
    /\ UNCHANGED <<clock, driver>>

Logout ==
    /\ op = ""
    /\ \E resp \in Responses({EmptyObj}) : logout(resp)
    /\ UNCHANGED <<clock, driver>>

ListProducts ==
    /\ op = ""
    /\ \E status \in {None, Some("active")}, resp \in Responses(ListBodies) :
          list_products(1, 20, status, resp)
    /\ UNCHANGED <<clock, driver>>

GetProduct ==
    /\ op = ""
    /\ \E id \in ProductIds, resp \in Responses(ProductObjects) :
          get_product(id, resp)
    /\ UNCHANGED <<clock, driver>>

CreateProduct ==
    /\ op = ""
    /\ \E resp \in Responses(ProductObjects) :
          create_product("SKU-1", "Widget", "", "units", resp)
    /\ UNCHANGED <<clock, driver>>

GetBuffer ==
    /\ op = ""
    /\ \E id \in ProductIds, resp \in Responses(BufferBodies) :
          get_buffer(id, resp)
    /\ UNCHANGED <<clock, driver>>

CalculateBuffer ==
    /\ op = ""
    /\ \E id \in ProductIds, resp \in Responses(BufferBodies) :
          calculate_buffer(id, resp)
    /\ UNCHANGED <<clock, driver>>

LeadTimes == {0, 1, 14}

CreatePurchaseOrder ==
    /\ op = ""
    /\ \E days \in LeadTimes, adv \in 0..1, resp \in Responses(RawObjects) :
          create_purchase_order("PO-1", "s1", <<>>, days, adv, resp)
    /\ UNCHANGED driver

ListPurchaseOrders ==
    /\ op = ""
    /\ \E status \in {None, Some("open")}, resp \in Responses(DataBodies) :
          list_purchase_orders(status, resp)
    /\ UNCHANGED <<clock, driver>>

GetKpiSnapshot ==
    /\ op = ""
    /\ \E resp \in Responses(KpiBodies) : get_kpi_snapshot(resp)
    /\ UNCHANGED <<clock, driver>>

GetNotifications ==
    /\ op = ""
    /\ \E unread \in BOOLEAN, resp \in Responses(NotificationBodies) :
          get_notifications(unread, resp)
    /\ UNCHANGED <<clock, driver>>

\* Time passes between calls.
Tick ==
    /\ op = ""
    /\ clock < MaxClock
    /\ clock' = clock + 1
    /\ UNCHANGED <<session, op, args, pre, requests, response, outcome, result,
                   driver>>

\* The call is over: the caller has its value or its exception, and the client
\* is ready for the next call (calls are serialized, one at a time).
Return ==
    /\ op # ""
    /\ op' = ""
    /\ args' = EmptyObj
    /\ pre' = [access_token |-> None, org_id |-> None, user |-> None]
    /\ requests' = <<>>
    /\ response' = NetworkFailure
    /\ outcome' = "ok"
    /\ result' = None
    /\ UNCHANGED <<session, clock, driver>>

Next ==
    \/ Login
    \/ RefreshToken
    \/ Logout
    \/ ListProducts
    \/ GetProduct
    \/ CreateProduct
    \/ GetBuffer
    \/ CalculateBuffer
    \/ CreatePurchaseOrder
    \/ ListPurchaseOrders
    \/ GetKpiSnapshot
    \/ GetNotifications
    \/ Tick
    \/ Return

Spec == Init /\ [][Next]_vars

----------------------------------------------------------------------------
(* The example driver main().  Each step calls the client once; the step's  *)
(* try block catches requests.exceptions.RequestException and nothing else. *)

\* Mutant: every step treats a failure as the login step does.
AfterStep_mut(outc, next) ==
    IF outc = "ok" THEN next
    ELSE IF outc \in RequestException THEN "returned"
    ELSE "crashed"

\* Where the driver goes after a step past login: on, unless the exception
\* is one the except clause does not catch.
AfterStep(outc, next) ==
    IF outc = "ok" \/ outc \in RequestException THEN next ELSE "crashed"

\* Step 1: a caught login failure returns from main().
MainLogin ==
    /\ pc = "login"
    /\ \E resp \in Responses(LoginBodies) :
          login("demo@example.com", "password", resp)
    /\ log' = Append(log, <<"login", outcome'>>)
    /\ pc' = IF outcome' = "ok" THEN "list_products"
             ELSE IF outcome' \in RequestException THEN "returned"
             ELSE "crashed"
    /\ UNCHANGED <<clock, products>>

\* Step 2
MainListProducts ==
    /\ pc = "list_products"
    /\ \E resp \in Responses(ListBodies) : list_products(1, 5, None, resp)
    /\ log' = Append(log, <<"list_products", outcome'>>)
    /\ products' = IF outcome' = "ok" THEN result'[1]
                   ELSE IF outcome' \in RequestException THEN <<>>
                   ELSE products
    /\ pc' = AfterStep(outcome', "create_product")
    /\ UNCHANGED clock

\* Step 3
MainCreateProduct ==
    /\ pc = "create_product"
    /\ \E resp \in Responses(ProductObjects) :
          create_product(<<"PY-", strftime(clock), clock % TicksPerDay>>,
                         "Python Demo Product", "Demo", "units", resp)
    /\ log' = Append(log, <<"create_product", outcome'>>)
    /\ pc' = AfterStep(outcome', "get_buffer")
    /\ UNCHANGED <<clock, products>>

\* Step 4: only `if products:`
MainGetBuffer ==
    /\ pc = "get_buffer"
    /\ IF products # <<>>
         THEN /\ \E resp \in Responses(BufferBodies) :
                    get_buffer(products[1].id, resp)
              /\ log' = Append(log, <<"get_buffer", outcome'>>)
              /\ pc' = AfterStep(outcome', "get_kpi_snapshot")
         ELSE /\ pc' = "get_kpi_snapshot"
              /\ UNCHANGED <<session, op, args, pre, requests, response, outcome,
                             result, log>>
    /\ UNCHANGED <<clock, products>>

\* Step 5
MainGetKpiSnapshot ==
    /\ pc = "get_kpi_snapshot"
    /\ \E resp \in Responses(KpiBodies) : get_kpi_snapshot(resp)
    /\ log' = Append(log, <<"get_kpi_snapshot", outcome'>>)
    /\ pc' = AfterStep(outcome', "get_notifications")
    /\ UNCHANGED <<clock, products>>

\* Step 6, then "Example complete!"
MainGetNotifications ==
    /\ pc = "get_notifications"
    /\ \E resp \in Responses(NotificationBodies) : get_notifications(TRUE, resp)
    /\ log' = Append(log, <<"get_notifications", outcome'>>)
    /\ pc' = AfterStep(outcome', "done")
    /\ UNCHANGED <<clock, products>>

main ==
    \/ MainLogin
    \/ MainListProducts
    \/ MainCreateProduct
    \/ MainGetBuffer
    \/ MainGetKpiSnapshot
    \/ MainGetNotifications

SpecMain == Init /\ [][main]_vars

----------------------------------------------------------------------------
(* Properties. *)

Success(resp) == resp.kind = "response" /\ resp.status \in 200..299
NonSuccess(resp) == resp.kind = "response" /\ resp.status \notin 200..299

SessionKept ==
    /\ access_token = pre.access_token
    /\ org_id = pre.org_id
    /\ user = pre.user

DataOps == {"list_products", "get_product", "create_product", "get_buffer",
            "calculate_buffer", "create_purchase_order", "list_purchase_orders",
            "get_kpi_snapshot", "get_notifications"}
AllOps == DataOps \cup {"login", "refresh_token", "logout"}

HasKeys(d, path) ==
    \/ path = <<>>
    \/ /\ path[1] \in DOMAIN d
       /\ (Len(path) = 1 \/ path[2] \in DOMAIN d[path[1]])

TokenFromBody ==
    /\ HasKeys(response.body, <<"access_token">>)
    /\ access_token = <<response.body["access_token"]>>

OrgFromBody ==
    /\ HasKeys(response.body, <<"user", "organization_id">>)
    /\ org_id = <<response.body["user"]["organization_id"]>>

UserFromBody ==
    /\ user # None
    /\ \A k \in {"id", "email", "organization_id"} :
          /\ HasKeys(response.body, <<"user", k>>)
          /\ user[1][k] = response.body["user"][k]
    /\ \A k \in {"first_name", "last_name"} :
          user[1][k] = IF HasKeys(response.body, <<"user", k>>)
                         THEN response.body["user"][k] ELSE ""
    /\ user[1]["roles"] = IF HasKeys(response.body, <<"user", "roles">>)
                            THEN response.body["user"]["roles"] ELSE <<>>

C2_LogoutAlwaysClears ==
    op = "logout" => (access_token = None /\ org_id = None /\ user = None)

HeaderMatches(req, name, held, value) ==
    /\ (name \in DOMAIN req.headers) <=> (held # None)
    /\ (held # None) => (req.headers[name] = value)

\* C3 as stated: every request of an operation other than login carries
\* Authorization: Bearer <token> exactly when the client holds a token and
\* X-Organization-ID exactly when it holds an organization id.
C3_SessionHeaders ==
    op \in AllOps \ {"login"} =>
        \A i \in 1..Len(requests) :
            /\ HeaderMatches(requests[i], "Authorization", pre.access_token,
                             "Bearer " \o pre.access_token[1])
            /\ HeaderMatches(requests[i], "X-Organization-ID", pre.org_id,
                             pre.org_id[1])

RECURSIVE AddDays(_, _)
AddDays(d, n) == IF n = 0 THEN d ELSE AddDays(NextDay(d), n - 1)

\* C5 as stated: the submitted expected_arrival_date is the calendar date
\* exactly expected_days after the submitted order_date, at every moment the
\* call can run.
C5_ArrivalIsOrderPlusDays ==
    op = "create_purchase_order" =>
        requests[1].json.expected_arrival_date
            = AddDays(requests[1].json.order_date, args.expected_days)

Terminal == {"done", "returned", "crashed"}

LoginOutcome == IF log = <<>> THEN "" ELSE log[1][2]

\* The steps of main() in program order; step 4 runs only `if products:`.
ExpectedSteps ==
    <<"login", "list_products", "create_product">>
        \o (IF products # <<>> THEN <<"get_buffer">> ELSE <<>>)
        \o <<"get_kpi_snapshot", "get_notifications">>

InOrder ==
    /\ Len(log) <= Len(ExpectedSteps)
    /\ \A i \in 1..Len(log) : log[i][1] = ExpectedSteps[i]

\* C6 as stated: a login that fails with a transport/HTTP error stops the
\* driver before any later step; after a successful login, whatever way a later
\* step fails, the driver goes on through the remaining steps in order and ends
\* at "Example complete!".
C6_Original ==
    /\ LoginOutcome \in RequestException => (Len(log) = 1 /\ pc = "returned")
    /\ LoginOutcome = "ok" =>
          /\ InOrder
          /\ pc \in Terminal => (pc = "done" /\ Len(log) = Len(ExpectedSteps))

\* C6, amended: a login that fails with a transport/HTTP error stops the
\* driver before any later step; after a successful login, whenever a later
\* step fails with a transport/HTTP error (requests' RequestException) the
\* driver goes on through the remaining steps in order and ends at "Example
\* complete!"; a later step that fails with any other exception (KeyError of a
\* response lacking a required key) ends the driver with that exception.
C6_DriverCatchesTransportErrors ==
    /\ LoginOutcome \in RequestException => (Len(log) = 1 /\ pc = "returned")
    /\ pc = "returned" => (Len(log) = 1 /\ LoginOutcome \in RequestException)
    /\ LoginOutcome = "ok" =>
          /\ InOrder
          /\ IF \A i \in 1..Len(log) : log[i][2] \in {"ok"} \cup RequestException
               THEN /\ pc # "crashed"
                    /\ (pc = "done") <=> (Len(log) = Len(ExpectedSteps))
                    /\ pc \notin Terminal => ENABLED main
               ELSE /\ pc = "crashed"
                    /\ log[Len(log)][2] \notin {"ok"} \cup RequestException

\* The driver finished although a step after login met a transport error.
C6_Witness ==
    /\ pc = "done"
    /\ LoginOutcome = "ok"
    /\ \E i \in 2..Len(log) : log[i][2] \in RequestException
    /\ log[Len(log)][1] = "get_notifications"

ProductDefault(k) == IF k = "status" THEN "active" ELSE ""

ProductMapped(p, r) ==
    \A k \in ProductKeys : r[k] = IF k \in DOMAIN p THEN p[k] ELSE ProductDefault(k)

BufferMapped(b, r) ==
    \A k \in BufferKeys :
        r[k] = IF k \in DOMAIN b THEN b[k]
               ELSE IF k = "product_id" THEN args.product_id
               ELSE IF k = "zone" THEN "unknown"
               ELSE 0

ArrayOf(key) ==
    IF key \in DOMAIN response.body THEN response.body[key] ELSE <<>>

\* C8: absent optional fields map to their defaults (category "", unit of
\* measure "", status "active"; zone "unknown", buffer numerics 0, product_id
\* the requested id, an absent "buffer" all of these; absent "products", "data",
\* "notifications" an empty sequence) and every present field is returned with
\* the response's value.
C8_DefaultsOfAbsentFields ==
    /\ (op = "list_products" /\ outcome = "ok") =>
          /\ Len(result[1]) = Len(ArrayOf("products"))
          /\ \A i \in 1..Len(result[1]) :
                ProductMapped(ArrayOf("products")[i], result[1][i])
    /\ (op \in {"get_product", "create_product"} /\ outcome = "ok") =>
          ProductMapped(response.body, result[1])
    /\ (op \in {"get_buffer", "calculate_buffer"} /\ Success(response)) =>
          /\ outcome = "ok"
          /\ BufferMapped(IF "buffer" \in DOMAIN response.body
                            THEN response.body["buffer"] ELSE EmptyObj, result[1])
    /\ (op = "list_purchase_orders" /\ Success(response)) =>
          (outcome = "ok" /\ result = <<ArrayOf("data")>>)
    /\ (op = "get_notifications" /\ Success(response)) =>
          (outcome = "ok" /\ result = <<ArrayOf("notifications")>>)

\* A product returned from a response that carries no status.
C8_Witness ==
    /\ op = "get_product"
    /\ outcome = "ok"
    /\ "status" \notin DOMAIN response.body
    /\ "category" \in DOMAIN response.body
    /\ result[1].status = "active"

\* C9: the nine catalog, buffer, purchase-order, analytics and notification
\* operations leave access token, organization id and user unchanged, whether
\* they succeed or fail.
C9_DataOpsKeepSession ==
    op \in DataOps => SessionKept

\* A product creation refused by the server within a session.
C9_Witness ==
    /\ op = "create_product"
    /\ outcome = "HTTPError"
    /\ pre.access_token # None /\ pre.org_id # None /\ pre.user # None
    /\ SessionKept

\* C10 as stated: after any sequence of login, refresh_token and logout calls
\* the three session fields are all set or all absent.
C10_AllOrNone ==
    \/ access_token = None /\ org_id = None /\ user = None
    \/ access_token # None /\ org_id # None /\ user # None

\* C10, amended: after any sequence of login, refresh_token and logout calls
\* (responses carrying strings for access_token and organization_id) the client
\* holds a user only if it holds an organization id, and an organization id
\* only if it holds an access token.
C10_SessionChain ==
    /\ (user # None) => (org_id # None)
    /\ (org_id # None) => (access_token # None)

\* A login whose user object lacks "id": token and organization id are held,
\* no user is.
C10_Witness ==
    /\ op = "login"
    /\ outcome = "KeyError"
    /\ access_token # None /\ org_id # None /\ user = None
====
